---- MODULE Spec2Model ----
(***************************************************************************)
(* Model of processor.Processor (src/processor/processor.go): the message  *)
(* processor of a task queue.  API calls (Start, Stop, Add, AddDelay,      *)
(* Process, ProcessOne, Purge, ProcessAll) are made by client threads and  *)
(* run statement by statement beside the goroutines the processor spawns   *)
(* (workers, fetchers, AddDelay timers, the batcher's flusher).            *)
(*                                                                         *)
(* Conventions.                                                            *)
(*  - A uint32 counter is held as its int32 reading: x - 1 at 0 gives -1,   *)
(*    which stands for 0xFFFFFFFF.  A counter is "wrapped" iff it is < 0.   *)
(*  - time.Duration is held in ticks, Second of them to the second.         *)
(*  - Time is abstract: a timer, a sleep or a timeout may end at any step.  *)
(*  - msgqueue.Handler, the Queuer behind p.q and internal.Batcher are not  *)
(*    part of src/: the handler's outcome is any of HandlerOutcomes, the    *)
(*    Queuer and the Batcher follow their contracts (spec.md 4.2, 6).       *)
(*  - opt.RateLimiter is nil (the default), avgDuration is not modelled.    *)
(***************************************************************************)
EXTENDS Integers, Sequences, FiniteSets, TLC

(* ---- bounds of the model ---- *)
Second == 2         \* resolution of time.Duration: ticks per second
NThreads == 2       \* client threads calling the API concurrently
MaxStarts == 2      \* successful startWorkers (Start/Stop cycles)
MaxMsgs == 2        \* messages created over a run

(* ---- msgqueue.Options (immutable after Init) ---- *)
WorkerNumber == 1
MaxBuffer == 2       \* largest opt.BufferSize (capacity of p.ch)
RetryLimit == 2
MinBackoffSec == 30
MaxRetry == 66       \* largest retry count handed to exponentialBackoff
MinBackoff == MinBackoffSec * Second

(* ---- program constants ---- *)
Minute == 60 * Second
Hour == 60 * Minute
maxBackoff == 12 * Hour
threshold == 100

Threads == 1..NThreads
MsgIds == 1..MaxMsgs
Workers == 1..(WorkerNumber * MaxStarts)
Fetchers == 1..MaxStarts
Chans == 1..MaxStarts
Nil == 0

VARIABLES
  started,    \* p._started
  stop,       \* p.stop: Nil or the channel written by the latest startWorkers
  nchan,      \* stop channels allocated so far
  closed,     \* the stop channels that are closed
  wg,         \* p.wg's counter
  ch,         \* p.ch: sequence of messages, capacity BufferSize
  c,          \* the atomic counters of Processor
  q,          \* the backing queue: per message id its state and reserved count
  batch,      \* p.delBatch: ids handed to the batcher and not yet flushed
  timers,     \* messages held by pending time.AfterFunc timers of AddDelay
  wk,         \* worker goroutines
  ft,         \* fetcher goroutines
  th,         \* client threads: the API call each is in
  opt,        \* options and environment fixed at construction
  lim,        \* what the run is bounded to: starts, messages, inputs, outcomes
  panicked,   \* a goroutine panicked: the process is gone
  nextId,     \* next message id to create
  hist,       \* per message id: what has happened to it (observation only)
  atClose,    \* per stop channel: the ids that were in ch when it was closed
  ev          \* what the last step did (observation only)

\* opt.BufferSize of the run
BufferSize == lim.buf

vars == <<started, stop, nchan, closed, wg, ch, c, q, batch, timers, wk, ft, th, opt, lim,
          panicked, nextId, hist, atClose, ev>>

(* ---- messages, errors ---- *)
Msg(id, delay, rc) == [id |-> id, delay |-> delay, rc |-> rc]
NoMsg == Msg(0, 0, 0)
MsgDelay == 5
\* what a client may hand to Add, AddDelay and Process
PlainMsg == [delay |-> 0, rc |-> 1]
MsgInputs == { PlainMsg, [delay |-> 0, rc |-> RetryLimit], [delay |-> MsgDelay, rc |-> 1] }

NoErr == [err |-> FALSE, delayer |-> FALSE, delay |-> 0]
PlainErr == [err |-> TRUE, delayer |-> FALSE, delay |-> 0]
DelayErr(d) == [err |-> TRUE, delayer |-> TRUE, delay |-> d]
\* what handler.HandleMessage may return
HandlerOutcomes == { NoErr, PlainErr, DelayErr(Minute), DelayErr(2 * Minute + 1) }

NoEv == [k |-> "none"]
conf == <<opt, lim>>

(* ---- atomic counters ---- *)
AddUint32(x, d) == x + d
Counters0 == [inFlight |-> 0, deleting |-> 0, processed |-> 0, retries |-> 0,
              fails |-> 0, errCount |-> 0, delayCount |-> 0, delaySec |-> 0]

Hist0 == [cnt |-> 0, by |-> "none", hnd |-> 0, rel |-> 0,
          del |-> 0, fb |-> 0, relFail |-> 0, delFail |-> 0]

Idle == [op |-> "idle", pc |-> "idle"]
WDone == [pc |-> "done", msg |-> NoMsg, ref |-> Nil]
WFree == [pc |-> "free", msg |-> NoMsg, ref |-> Nil]
FDone == [pc |-> "done", buf |-> <<>>]
FFree == [pc |-> "free", buf |-> <<>>]

InitWith(opts, lims) ==
  /\ started = 0
  /\ stop = Nil
  /\ nchan = 0
  /\ closed = {}
  /\ wg = 0
  /\ ch = <<>>
  /\ c = Counters0
  /\ q = [i \in MsgIds |-> [st |-> "none", rc |-> 0]]
  /\ batch = [i \in MsgIds |-> 0]
  /\ timers = {}
  /\ wk = [w \in Workers |-> WFree]
  /\ ft = [f \in Fetchers |-> FFree]
  /\ th = [t \in Threads |-> Idle]
  /\ opt \in opts
  /\ lim \in lims
  /\ panicked = FALSE
  /\ nextId = 1
  /\ hist = [i \in MsgIds |-> Hist0]
  /\ atClose = [k \in Chans |-> {}]
  /\ ev = NoEv

(* ======================= the processor's functions ===================== *)
\* The part of the state that Process, release and delete work on.
World == [c |-> c, q |-> q, batch |-> batch, hist |-> hist, relDelay |-> -1]

Pow2(n) == IF n <= 0 THEN 1 ELSE 2 ^ n

\* dur <<= uint(retry - 1), clamped at maxBackoff.  uint(retry - 1) of a
\* retry <= 0 is a shift by more than the width, which gives 0 in Go.
exponentialBackoff(dur, retry) ==
  LET shifted == IF retry >= 1 THEN dur * Pow2(retry - 1) ELSE 0
  IN IF shifted > maxBackoff THEN maxBackoff ELSE shifted

resetPause(cs) == [cs EXCEPT !.errCount = 0, !.delayCount = 0]

(* ---- time.Duration at its width: an int64 count of nanoseconds in two's  *)
(* complement, held as four 16-bit limbs, the lowest first ---- *)
Nanosecond64 == <<1, 0, 0, 0>>
Zero64 == <<0, 0, 0, 0>>
MaxInt64 == <<65535, 65535, 65535, 32767>>

\* d * n for a small n, wrapping at 64 bits as Go's multiplication does.
Mul64(d, n) ==
  LET p0 == d[1] * n
      p1 == d[2] * n + p0 \div 65536
      p2 == d[3] * n + p1 \div 65536
      p3 == d[4] * n + p2 \div 65536
  IN <<p0 % 65536, p1 % 65536, p2 % 65536, p3 % 65536>>

Neg64(d) == d[4] >= 32768

\* a > b on int64
Gt64(a, b) ==
  IF Neg64(a) # Neg64(b) THEN Neg64(b)
  ELSE \E i \in 1..4 : a[i] > b[i] /\ \A j \in (i + 1)..4 : a[j] = b[j]

\* d << n on int64: the bits shifted out are lost, a shift by 64 or more
\* gives 0.
Shl64(d, n) ==
  IF n >= 64 THEN Zero64
  ELSE Mul64([i \in 1..4 |-> IF i > n \div 16 THEN d[i - n \div 16] ELSE 0],
             Pow2(n % 16))

Second64 == Mul64(Mul64(Mul64(Nanosecond64, 1000), 1000), 1000)
Hour64 == Mul64(Mul64(Second64, 60), 60)
MinBackoff64 == Mul64(Second64, MinBackoffSec)
maxBackoff64 == Mul64(Hour64, 12)

\* exponentialBackoff on int64 durations; retry >= 1.
exponentialBackoff64(dur, retry) ==
  LET shifted == Shl64(dur, retry - 1)
  IN IF Gt64(shifted, maxBackoff64) THEN maxBackoff64 ELSE shifted

paused(cs) ==
  IF cs.delayCount > threshold THEN cs.delaySec * Second
  ELSE IF cs.errCount > threshold THEN Minute
  ELSE 0

\* releaseBackoff without its msg.Delay case.
releaseBackoffNoMsgDelay(cs, msg, reason) ==
  IF reason.err /\ reason.delayer
  THEN [delay |-> reason.delay,
        c |-> IF reason.delay > Minute
              THEN [cs EXCEPT !.delaySec = reason.delay \div Second,
                              !.delayCount = AddUint32(@, 1)]
              ELSE cs]
  ELSE [delay |-> exponentialBackoff(MinBackoff, msg.rc), c |-> cs]

\* releaseBackoff feeding the pause controller from a delay of one minute on.
releaseBackoffFromMinute(cs, msg, reason) ==
  IF reason.err /\ reason.delayer
  THEN [delay |-> reason.delay,
        c |-> IF reason.delay >= Minute
              THEN [cs EXCEPT !.delaySec = reason.delay \div Second,
                              !.delayCount = AddUint32(@, 1)]
              ELSE cs]
  ELSE IF msg.delay > 0 THEN [delay |-> msg.delay, c |-> cs]
  ELSE [delay |-> exponentialBackoff(MinBackoff, msg.rc), c |-> cs]

\* The delay of a release and the counters after it (delaySec, delayCount).
releaseBackoff(cs, msg, reason) ==
  IF reason.err /\ reason.delayer
  THEN [delay |-> reason.delay,
        c |-> IF reason.delay > Minute
              THEN [cs EXCEPT !.delaySec = reason.delay \div Second,
                              !.delayCount = AddUint32(@, 1)]
              ELSE cs]
  ELSE IF msg.delay > 0 THEN [delay |-> msg.delay, c |-> cs]
  ELSE [delay |-> exponentialBackoff(MinBackoff, msg.rc), c |-> cs]

\* Queuer.Release: the message is back in the backing queue.  A pull queue
\* hands it out again on a later ReserveN; a push-only queue keeps it.
QRelease(qs, msg, delay) ==
  [qs EXCEPT ![msg.id].st = IF opt.pull THEN "ready" ELSE "released"]

\* Queuer.DeleteBatch
QDeleteBatch(qs, ids) ==
  [i \in MsgIds |-> IF i \in ids THEN [qs[i] EXCEPT !.st = "deleted"] ELSE qs[i]]

release(w, msg, reason) ==
  LET rb == releaseBackoff(w.c, msg, reason)
  IN [w EXCEPT !.c = [rb.c EXCEPT !.inFlight = AddUint32(@, -1)],
               !.q = QRelease(w.q, msg, rb.delay),
               !.relDelay = rb.delay,
               !.hist[msg.id].rel = @ + 1,
               !.hist[msg.id].relFail = @ + (IF reason.err THEN 1 ELSE 0)]

\* delete without the count of the deletion in progress.
deleteUncounted(w, msg, reason) ==
  LET cs == IF ~reason.err THEN resetPause(w.c) ELSE w.c
      fb == IF reason.err /\ opt.fallback THEN 1 ELSE 0
  IN [w EXCEPT !.c = [cs EXCEPT !.inFlight = AddUint32(@, -1)],
               !.batch[msg.id] = @ + 1,
               !.hist[msg.id].fb = @ + fb,
               !.hist[msg.id].del = @ + 1,
               !.hist[msg.id].delFail = @ + (IF reason.err THEN 1 ELSE 0)]

delete(w, msg, reason) ==
  LET cs == IF ~reason.err THEN resetPause(w.c) ELSE w.c
      fb == IF reason.err /\ opt.fallback THEN 1 ELSE 0
  IN [w EXCEPT !.c = [cs EXCEPT !.inFlight = AddUint32(@, -1),
                                !.deleting = AddUint32(@, 1)],
               !.batch[msg.id] = @ + 1,
               !.hist[msg.id].fb = @ + fb,
               !.hist[msg.id].del = @ + 1,
               !.hist[msg.id].delFail = @ + (IF reason.err THEN 1 ELSE 0)]

retryOffByOne(msg) == msg.rc <= RetryLimit

\* Whether a failed message is released for another try (else it is deleted).
retry(msg) == msg.rc < RetryLimit

\* Process without the return that ends its delay branch: the release is
\* followed by the handler and a second terminal call.
ProcessPlanFallThrough(msg, out) ==
  LET first == IF msg.delay > 0 THEN << [op |-> "release", reason |-> NoErr] >> ELSE <<>>
  IN IF ~out.err
     THEN [hnd |-> 1, bump |-> "processed",
           term |-> first \o << [op |-> "delete", reason |-> NoErr] >>, ret |-> NoErr]
     ELSE IF retry(msg)
     THEN [hnd |-> 1, bump |-> "retries",
           term |-> first \o << [op |-> "release", reason |-> out] >>, ret |-> out]
     ELSE [hnd |-> 1, bump |-> "fails",
           term |-> first \o << [op |-> "delete", reason |-> out] >>, ret |-> out]

\* What Process does with msg when the handler, if invoked, returns out:
\* whether the handler runs, the counter it bumps, the terminal calls it makes
\* in order, and what it returns.
ProcessPlan(msg, out) ==
  IF msg.delay > 0
  THEN [hnd |-> 0, bump |-> "none", term |-> << [op |-> "release", reason |-> NoErr] >>,
        ret |-> NoErr]
  ELSE IF ~out.err
  THEN [hnd |-> 1, bump |-> "processed", term |-> << [op |-> "delete", reason |-> NoErr] >>,
        ret |-> NoErr]
  ELSE IF retry(msg)
  THEN [hnd |-> 1, bump |-> "retries", term |-> << [op |-> "release", reason |-> out] >>,
        ret |-> out]
  ELSE [hnd |-> 1, bump |-> "fails", term |-> << [op |-> "delete", reason |-> out] >>,
        ret |-> out]

Bump(cs, name) ==
  CASE name = "processed" -> [cs EXCEPT !.processed = AddUint32(@, 1)]
    [] name = "retries" -> [cs EXCEPT !.retries = AddUint32(@, 1)]
    [] name = "fails" -> [cs EXCEPT !.fails = AddUint32(@, 1)]
    [] OTHER -> cs

RECURSIVE Terminals(_, _, _)
Terminals(w, msg, term) ==
  IF term = <<>> THEN w
  ELSE LET t == Head(term)
           w1 == IF t.op = "release" THEN release(w, msg, t.reason)
                 ELSE delete(w, msg, t.reason)
       IN Terminals(w1, msg, Tail(term))

\* Process(msg): the world after the call.
Process(w, msg, out) ==
  LET plan == ProcessPlan(msg, out)
      w0 == [w EXCEPT !.c = Bump(@, plan.bump),
                      !.hist[msg.id].hnd = @ + plan.hnd]
  IN Terminals(w0, msg, plan.term)

SetWorld(w) == /\ c' = w.c
               /\ q' = w.q
               /\ batch' = w.batch
               /\ hist' = w.hist

\* The observation of one Process call.
ProcessEv(who, msg, out, w) ==
  LET plan == ProcessPlan(msg, out)
  IN [k |-> "process", who |-> who, id |-> msg.id, msg |-> msg, out |-> out,
      hnd |-> plan.hnd,
      nrel |-> w.hist[msg.id].rel - hist[msg.id].rel,
      ndel |-> w.hist[msg.id].del - hist[msg.id].del,
      nfb |-> w.hist[msg.id].fb - hist[msg.id].fb,
      relDelay |-> w.relDelay, ret |-> plan.ret, before |-> c, after |-> w.c]

(* ============================ lifecycle ================================ *)
LiveWorkers == {w \in Workers : wk[w].pc \notin {"free", "done"}}
LiveFetchers == {f \in Fetchers : ft[f].pc \notin {"free", "done"}}
InCall(t) == th[t] # Idle
ChIds == {ch[i].id : i \in 1..Len(ch)}
BatchLen == LET RECURSIVE Sum(_)
                 Sum(S) == IF S = {} THEN 0
                           ELSE LET i == CHOOSE x \in S : TRUE
                                IN batch[i] + Sum(S \ {i})
             IN Sum(MsgIds)

Return(t, res) == [k |-> "return", t |-> t, op |-> th[t].op, res |-> res, call |-> th[t]]

casStartedAlways(old) == TRUE

\* atomic.CompareAndSwapUint32(&p._started, old, new): whether it swaps.
casStarted(old) == started = old

\* The successful startWorkers still to allocate their stop channel.
Making == {t \in Threads : th[t].pc = "make"}

\* Start / ProcessAll enter startWorkers: the compare-and-swap.  Start returns
\* nil at once when it fails; ProcessAll goes on to its loop.
startWorkersCAS(t, op) ==
  /\ ~panicked
  /\ th[t] = Idle
  /\ IF casStarted(0)
     THEN /\ nchan + Cardinality(Making) < lim.starts
          /\ started' = 1
          /\ th' = [th EXCEPT ![t] = [op |-> op, pc |-> "make", chan |-> Nil]]
          /\ ev' = NoEv
     ELSE /\ started' = started
          /\ IF op = "Start"
             THEN /\ th' = th
                  /\ ev' = [k |-> "return", t |-> t, op |-> op, res |-> "nil",
                            call |-> [op |-> op, pc |-> "cas", won |-> FALSE]]
             ELSE /\ th' = [th EXCEPT ![t] = [op |-> op, pc |-> "pa_idle", noWork |-> 0,
                                              isIdle |-> FALSE, buf |-> <<>>, n |-> 0,
                                              err |-> "nil", rounds |-> <<>>]]
                  /\ ev' = NoEv
  /\ UNCHANGED <<stop, nchan, closed, wg, ch, c, q, batch, timers, wk, ft, conf,
                 panicked, nextId, hist, atClose>>

\* p.stop = make(chan struct{})
startWorkersMake(t) ==
  /\ ~panicked
  /\ th[t].pc = "make"
  /\ nchan' = nchan + 1
  /\ stop' = nchan + 1
  /\ th' = [th EXCEPT ![t].pc = "spawn", ![t].chan = nchan + 1]
  /\ ev' = NoEv
  /\ UNCHANGED <<started, closed, wg, ch, c, q, batch, timers, wk, ft, conf,
                 panicked, nextId, hist, atClose>>

WorkerSlots(k) == ((k - 1) * WorkerNumber + 1)..(k * WorkerNumber)

\* p.wg.Add(WorkerNumber); go p.worker() for each; startWorkers returns true.
startWorkersSpawn(t) ==
  /\ ~panicked
  /\ th[t].pc = "spawn"
  /\ wg' = wg + WorkerNumber
  /\ wk' = [w \in Workers |-> IF w \in WorkerSlots(th[t].chan)
                              THEN [pc |-> "loop", msg |-> NoMsg, ref |-> Nil]
                              ELSE wk[w]]
  /\ th' = [th EXCEPT ![t] = IF th[t].op = "Start"
                             THEN [th[t] EXCEPT !.pc = "fetcher"]
                             ELSE [op |-> th[t].op, pc |-> "pa_idle", noWork |-> 0,
                                   isIdle |-> FALSE, buf |-> <<>>, n |-> 0, err |-> "nil",
                                   rounds |-> <<>>]]
  /\ ev' = NoEv
  /\ UNCHANGED <<started, stop, nchan, closed, ch, c, q, batch, timers, ft, conf,
                 panicked, nextId, hist, atClose>>

\* Start: p.wg.Add(1); go p.messageFetcher(); return nil
StartFetcher(t) ==
  /\ ~panicked
  /\ th[t].pc = "fetcher"
  /\ wg' = wg + 1
  /\ ft' = [ft EXCEPT ![th[t].chan] = [pc |-> "check", buf |-> <<>>]]
  /\ th' = [th EXCEPT ![t] = Idle]
  /\ ev' = [k |-> "return", t |-> t, op |-> "Start", res |-> "nil",
            call |-> [th[t] EXCEPT !.pc = "ret"] @@ [won |-> TRUE]]
  /\ UNCHANGED <<started, stop, nchan, closed, ch, c, q, batch, timers, wk, conf,
                 panicked, nextId, hist, atClose>>

\* The workers and fetchers running now (spawned and not yet returned).
LiveTasks == {<<"worker", w>> : w \in LiveWorkers} \cup {<<"fetcher", f>> : f \in LiveFetchers}

StopCall0(t) == [op |-> "Stop", pc |-> "close", chan |-> Nil, live |-> {},
                 zero |-> FALSE, liveAtZero |-> -1, pend |-> FALSE]

\* Stop / StopTimeout enter stopWorkersTimeout: the compare-and-swap; return nil
\* at once when it fails.
stopWorkersCAS(t) ==
  /\ ~panicked
  /\ th[t] = Idle
  /\ IF casStarted(1)
     THEN /\ started' = 0
          /\ th' = [th EXCEPT ![t] = StopCall0(t)]
          /\ ev' = NoEv
     ELSE /\ started' = started
          /\ th' = th
          /\ ev' = [k |-> "return", t |-> t, op |-> "Stop", res |-> "nil",
                    call |-> [op |-> "Stop", pc |-> "cas", won |-> FALSE]]
  /\ UNCHANGED <<stop, nchan, closed, wg, ch, c, q, batch, timers, wk, ft, conf,
                 panicked, nextId, hist, atClose>>

\* close(p.stop): panics on a nil channel and on a closed channel.
closePanics(chan) == chan = Nil \/ chan \in closed

stopWorkersClose(t) ==
  /\ ~panicked
  /\ th[t].pc = "close"
  /\ IF closePanics(stop)
     THEN /\ panicked' = TRUE
          /\ ev' = [k |-> "panic", t |-> t, op |-> th[t].op, chan |-> stop]
          /\ UNCHANGED <<closed, atClose, th>>
     ELSE /\ closed' = closed \cup {stop}
          /\ atClose' = [atClose EXCEPT ![stop] = ChIds]
          /\ th' = [th EXCEPT ![t].pc = "wait", ![t].chan = stop, ![t].live = LiveTasks]
          /\ ev' = NoEv
          /\ UNCHANGED panicked
  /\ UNCHANGED <<started, stop, nchan, wg, ch, c, q, batch, timers, wk, ft, conf,
                 nextId, hist>>

wgWaitEarly(n) == TRUE

\* p.wg.Wait() returns with the wait-group's counter at n.
wgWait(n) == n = 0

\* The goroutine of stopWorkersTimeout: p.wg.Wait(); close(stopped)
stopWorkersWaiter(t) ==
  /\ ~panicked
  /\ th[t].pc = "wait" /\ ~th[t].zero
  /\ wgWait(wg)
  /\ th' = [th EXCEPT ![t].zero = TRUE,
                      ![t].liveAtZero = Cardinality(LiveWorkers) + Cardinality(LiveFetchers)]
  /\ ev' = NoEv
  /\ UNCHANGED <<started, stop, nchan, closed, wg, ch, c, q, batch, timers, wk, ft,
                 conf, panicked, nextId, hist, atClose>>

\* The timeout branch going on to p.delBatch.Wait() in place of returning.
stopWorkersTimeoutDrains(t) ==
  /\ ~panicked
  /\ th[t].pc = "wait"
  /\ th' = [th EXCEPT ![t].pc = "bwait", ![t].pend = BatchLen > 0]
  /\ ev' = NoEv
  /\ UNCHANGED <<started, stop, nchan, closed, wg, ch, c, q, batch, timers, wk, ft,
                 conf, panicked, nextId, hist, atClose>>

\* case <-time.After(timeout): return the timeout error
stopWorkersTimeout(t) ==
  /\ ~panicked
  /\ th[t].pc = "wait"
  /\ th' = [th EXCEPT ![t] = Idle]
  /\ ev' = [k |-> "return", t |-> t, op |-> th[t].op, res |-> "timeout",
            call |-> th[t] @@ [won |-> TRUE]]
  /\ UNCHANGED <<started, stop, nchan, closed, wg, ch, c, q, batch, timers, wk, ft,
                 conf, panicked, nextId, hist, atClose>>

stoppedReadyEarly(call) == TRUE

\* case <-stopped: whether the select may take it
stoppedReady(call) == call.zero

\* case <-stopped: p.delBatch.Wait() is called
stopWorkersStopped(t) ==
  /\ ~panicked
  /\ th[t].pc = "wait" /\ stoppedReady(th[t])
  /\ th' = [th EXCEPT ![t].pc = "bwait", ![t].pend = BatchLen > 0]
  /\ ev' = NoEv
  /\ UNCHANGED <<started, stop, nchan, closed, wg, ch, c, q, batch, timers, wk, ft,
                 conf, panicked, nextId, hist, atClose>>

\* p.delBatch.Wait() returns: return its result
stopWorkersReturn(t) ==
  /\ ~panicked
  /\ th[t].pc = "bwait" /\ th[t].op \in {"Stop", "ProcessAll"}
  /\ ~th[t].pend
  /\ th' = [th EXCEPT ![t] = Idle]
  /\ ev' = [k |-> "return", t |-> t, op |-> th[t].op, res |-> "nil",
            call |-> th[t] @@ [won |-> TRUE]]
  /\ UNCHANGED <<started, stop, nchan, closed, wg, ch, c, q, batch, timers, wk, ft,
                 conf, panicked, nextId, hist, atClose>>

(* ============================== workers ================================ *)
\* worker: the loop calls dequeueMessage, whose select reads p.stop once.
workerLoop(w) ==
  /\ ~panicked
  /\ wk[w].pc = "loop"
  /\ wk' = [wk EXCEPT ![w].pc = "select", ![w].ref = stop]
  /\ ev' = NoEv
  /\ UNCHANGED <<started, stop, nchan, closed, wg, ch, c, q, batch, timers, ft, th,
                 conf, panicked, nextId, hist, atClose>>

\* dequeueMessage: case msg := <-p.ch, in the outer or in the inner select;
\* the worker then calls Process(msg).
dequeueMessageRecv(w) ==
  /\ ~panicked
  /\ wk[w].pc = "select"
  /\ ch # <<>>
  /\ ch' = Tail(ch)
  /\ wk' = [wk EXCEPT ![w].pc = "handle", ![w].msg = Head(ch)]
  /\ hist' = [hist EXCEPT ![Head(ch).id].by = "worker"]
  /\ ev' = NoEv
  /\ UNCHANGED <<started, stop, nchan, closed, wg, c, q, batch, timers, ft, th,
                 conf, panicked, nextId, atClose>>

dequeueMessageNoDrain(chs) == TRUE

\* dequeueMessage, case <-p.stop: whether the inner select takes its default
\* (return nil, false) with p.ch holding chs.
dequeueMessageDefault(chs) == chs = <<>>

\* dequeueMessage returns false on a closed stop channel and an empty p.ch;
\* the worker breaks out of its loop and runs its deferred p.wg.Done().
workerExit(w) ==
  /\ ~panicked
  /\ wk[w].pc = "select"
  /\ wk[w].ref \in closed
  /\ dequeueMessageDefault(ch)
  /\ wk' = [wk EXCEPT ![w] = WDone]
  /\ wg' = wg - 1
  /\ ev' = [k |-> "workerExit", w |-> w, chan |-> wk[w].ref]
  /\ UNCHANGED <<started, stop, nchan, closed, ch, c, q, batch, timers, ft, th,
                 conf, panicked, nextId, hist, atClose>>

\* The handler's possible outcomes for msg (it is not invoked on a delayed one).
Outs(msg) == IF msg.delay > 0 THEN {NoErr} ELSE lim.outs

\* worker: p.Process(msg) runs to its end (the handler returns, then the
\* release or the delete).
workerProcess(w) ==
  /\ ~panicked
  /\ wk[w].pc = "handle"
  /\ \E out \in Outs(wk[w].msg) :
       LET w2 == Process(World, wk[w].msg, out)
       IN /\ SetWorld(w2)
          /\ ev' = ProcessEv("worker", wk[w].msg, out, w2)
  /\ wk' = [wk EXCEPT ![w].pc = "loop", ![w].msg = NoMsg]
  /\ UNCHANGED <<started, stop, nchan, closed, wg, ch, timers, ft, th,
                 conf, panicked, nextId, atClose>>

(* ======================= Add, AddDelay, timers ========================= *)
NewMsg(in) == Msg(nextId, in.delay, in.rc)

\* A client creates a message: the backing queue knows it as handed out.
Created(m) ==
  /\ nextId <= lim.msgs
  /\ nextId' = nextId + 1
  /\ q' = [q EXCEPT ![m.id] = [st |-> "out", rc |-> m.rc]]

\* atomic.AddUint32(&p.inFlight, 1) for message id: the counter, and the
\* record that id was counted in.
CountIn(id) ==
  /\ c' = [c EXCEPT !.inFlight = AddUint32(@, 1)]
  /\ hist' = [hist EXCEPT ![id].cnt = @ + 1]

\* Add(msg), and AddDelay(msg, 0): queueMessage increments inFlight ...
AddCall(t, op) ==
  /\ ~panicked
  /\ th[t] = Idle
  /\ \E in \in lim.inputs :
       /\ Created(NewMsg(in))
       /\ th' = [th EXCEPT ![t] = [op |-> op, pc |-> "send", msg |-> NewMsg(in)]]
  /\ CountIn(nextId)
  /\ ev' = NoEv
  /\ UNCHANGED <<started, stop, nchan, closed, wg, ch, batch, timers, wk, ft,
                 conf, panicked, atClose>>

\* ... and sends on p.ch, blocking while it is full; Add returns nil.
AddSend(t) ==
  /\ ~panicked
  /\ th[t].pc = "send"
  /\ Len(ch) < BufferSize
  /\ ch' = Append(ch, th[t].msg)
  /\ th' = [th EXCEPT ![t] = Idle]
  /\ ev' = Return(t, "nil")
  /\ UNCHANGED <<started, stop, nchan, closed, wg, c, q, batch, timers, wk, ft,
                 conf, panicked, nextId, hist, atClose>>

\* AddDelay(msg, delay) with delay > 0: inFlight is incremented, the timer is
\* armed, nil is returned.
AddDelayCall(t) ==
  /\ ~panicked
  /\ th[t] = Idle
  /\ \E in \in lim.inputs :
       /\ Created(NewMsg(in))
       /\ timers' = timers \cup {NewMsg(in)}
       /\ ev' = [k |-> "return", t |-> t, op |-> "AddDelay", res |-> "nil",
                 call |-> [op |-> "AddDelay", pc |-> "timer", msg |-> NewMsg(in)]]
  /\ CountIn(nextId)
  /\ UNCHANGED <<started, stop, nchan, closed, wg, ch, batch, wk, ft, th,
                 conf, panicked, atClose>>

\* The timer's function counting the message in again before its send.
TimerFireCounts(m) ==
  /\ ~panicked
  /\ m \in timers
  /\ Len(ch) < BufferSize
  /\ ch' = Append(ch, m)
  /\ timers' = timers \ {m}
  /\ CountIn(m.id)
  /\ ev' = NoEv
  /\ UNCHANGED <<started, stop, nchan, closed, wg, q, batch, wk, ft, th,
                 conf, panicked, nextId, atClose>>

\* The timer of AddDelay fires and its function sends on p.ch (blocking while
\* p.ch is full).
TimerFire(m) ==
  /\ ~panicked
  /\ m \in timers
  /\ Len(ch) < BufferSize
  /\ ch' = Append(ch, m)
  /\ timers' = timers \ {m}
  /\ ev' = NoEv
  /\ UNCHANGED <<started, stop, nchan, closed, wg, c, q, batch, wk, ft, th,
                 conf, panicked, nextId, hist, atClose>>

(* ===================== Process, ProcessOne, Purge ====================== *)
\* Process(msg) called by a client: the handler is running ...
ProcessCall(t) ==
  /\ ~panicked
  /\ th[t] = Idle
  /\ \E in \in lim.inputs :
       /\ Created(NewMsg(in))
       /\ th' = [th EXCEPT ![t] = [op |-> "Process", pc |-> "handle", msg |-> NewMsg(in)]]
  /\ ev' = NoEv
  /\ UNCHANGED <<started, stop, nchan, closed, wg, ch, c, batch, timers, wk, ft,
                 conf, panicked, hist, atClose>>

\* ... and Process runs to its end and returns.
ProcessReturn(t) ==
  /\ ~panicked
  /\ th[t].pc = "handle" /\ th[t].op = "Process"
  /\ \E out \in Outs(th[t].msg) :
       LET w2 == Process(World, th[t].msg, out)
       IN /\ SetWorld(w2)
          /\ ev' = ProcessEv("direct", th[t].msg, out, w2)
  /\ th' = [th EXCEPT ![t] = Idle]
  /\ UNCHANGED <<started, stop, nchan, closed, wg, ch, timers, wk, ft,
                 conf, panicked, nextId, atClose>>

\* Queuer.ReserveN(n): the possible results.  A push-only queue does not
\* support it; a pull queue fails, or hands out up to n ready messages.
RECURSIVE Lowest(_, _)
Lowest(S, k) ==
  IF k = 0 \/ S = {} THEN <<>>
  ELSE LET m == CHOOSE x \in S : \A y \in S : x <= y
       IN <<m>> \o Lowest(S \ {m}, k - 1)

Ready == {i \in MsgIds : q[i].st = "ready"}
Min(a, b) == IF a < b THEN a ELSE b

ReserveN(n) ==
  IF ~opt.pull THEN { [err |-> "notSupported", ids |-> <<>>] }
  ELSE { [err |-> "failed", ids |-> <<>>] } \cup
       { [err |-> "nil", ids |-> Lowest(Ready, k)] : k \in 0..Min(n, Cardinality(Ready)) }

\* The messages a ReserveN result carries, and the queue after it.
Reserved(r) == [i \in 1..Len(r.ids) |-> Msg(r.ids[i], 0, q[r.ids[i]].rc + 1)]
QReserve(r) ==
  [i \in MsgIds |-> IF \E j \in 1..Len(r.ids) : r.ids[j] = i
                    THEN [st |-> "reserved", rc |-> q[i].rc + 1] ELSE q[i]]

\* ProcessOne: reserveOne.  A non-blocking receive from p.ch, else ReserveN(1);
\* an error other than ErrNotSupported, or no message, ends the call.
reserveOne(t) ==
  /\ ~panicked
  /\ th[t] = Idle
  /\ IF ch # <<>>
     THEN /\ ch' = Tail(ch)
          /\ th' = [th EXCEPT ![t] = [op |-> "ProcessOne", pc |-> "handle", msg |-> Head(ch),
                                      from |-> "ch", pend |-> FALSE, ret |-> NoErr,
                                      c0 |-> c]]
          /\ hist' = [hist EXCEPT ![Head(ch).id].by = "one"]
          /\ ev' = NoEv
          /\ UNCHANGED <<c, q>>
     ELSE \E r \in ReserveN(1) :
            /\ ch' = ch
            /\ q' = QReserve(r)
            /\ IF r.err = "failed"
               THEN /\ th' = th
                    /\ ev' = [k |-> "return", t |-> t, op |-> "ProcessOne", res |-> "failed",
                              call |-> [op |-> "ProcessOne", pc |-> "reserve"],
                              before |-> c, after |-> c]
                    /\ UNCHANGED <<c, hist>>
               ELSE IF Len(r.ids) = 0
               THEN /\ th' = th
                    /\ ev' = [k |-> "return", t |-> t, op |-> "ProcessOne", res |-> "empty",
                              call |-> [op |-> "ProcessOne", pc |-> "reserve"],
                              before |-> c, after |-> c]
                    /\ UNCHANGED <<c, hist>>
               ELSE /\ c' = [c EXCEPT !.inFlight = AddUint32(@, 1)]
                    /\ th' = [th EXCEPT ![t] = [op |-> "ProcessOne", pc |-> "handle",
                                                msg |-> Reserved(r)[1], from |-> "queue",
                                                pend |-> FALSE, ret |-> NoErr, c0 |-> c]]
                    /\ hist' = [hist EXCEPT ![r.ids[1]].by = "one",
                                            ![r.ids[1]].cnt = @ + 1]
                    /\ ev' = NoEv
  /\ UNCHANGED <<started, stop, nchan, closed, wg, batch, timers, wk, ft,
                 conf, panicked, nextId, atClose>>

\* ProcessOne going on without waiting for the batcher.
ProcessOneProcessNoWait(t) ==
  /\ ~panicked
  /\ th[t].pc = "handle" /\ th[t].op = "ProcessOne"
  /\ \E out \in Outs(th[t].msg) :
       LET w2 == Process(World, th[t].msg, out)
       IN /\ SetWorld(w2)
          /\ ev' = ProcessEv("one", th[t].msg, out, w2)
          /\ th' = [th EXCEPT ![t].pc = "bwait",
                              ![t].ret = ProcessPlan(th[t].msg, out).ret]
  /\ UNCHANGED <<started, stop, nchan, closed, wg, ch, timers, wk, ft,
                 conf, panicked, nextId, atClose>>

\* ProcessOne: retErr := p.Process(msg), then p.delBatch.Wait() is called.
ProcessOneProcess(t) ==
  /\ ~panicked
  /\ th[t].pc = "handle" /\ th[t].op = "ProcessOne"
  /\ \E out \in Outs(th[t].msg) :
       LET w2 == Process(World, th[t].msg, out)
       IN /\ SetWorld(w2)
          /\ ev' = ProcessEv("one", th[t].msg, out, w2)
          /\ th' = [th EXCEPT ![t].pc = "bwait",
                              ![t].ret = ProcessPlan(th[t].msg, out).ret,
                              ![t].pend = \E i \in MsgIds : w2.batch[i] > 0]
  /\ UNCHANGED <<started, stop, nchan, closed, wg, ch, timers, wk, ft,
                 conf, panicked, nextId, atClose>>

\* ProcessOne: p.delBatch.Wait() returns; return retErr.
ProcessOneReturn(t) ==
  /\ ~panicked
  /\ th[t].pc = "bwait" /\ th[t].op = "ProcessOne"
  /\ ~th[t].pend
  /\ th' = [th EXCEPT ![t] = Idle]
  /\ ev' = Return(t, IF th[t].ret.err THEN "handler" ELSE "nil")
  /\ UNCHANGED <<started, stop, nchan, closed, wg, ch, c, q, batch, timers, wk, ft,
                 conf, panicked, nextId, hist, atClose>>

\* The call frame of Purge, with the counters and p.ch as it found them.
PurgeCall(t) == IF th[t] = Idle THEN [op |-> "Purge", pc |-> "purge", c0 |-> c, ch0 |-> ChIds]
                ELSE th[t]

\* Purge: one round of its loop.  A message received from p.ch is deleted
\* without the handler; on an empty p.ch Purge returns nil.
Purge(t) ==
  /\ ~panicked
  /\ th[t] = Idle \/ th[t].pc = "purge"
  /\ IF ch # <<>>
     THEN /\ ch' = Tail(ch)
          /\ LET w1 == [World EXCEPT !.hist[Head(ch).id].by = "purge"]
                 w2 == delete(w1, Head(ch), NoErr)
             IN /\ SetWorld(w2)
                /\ ev' = [k |-> "purge", t |-> t, id |-> Head(ch).id,
                          before |-> c, after |-> w2.c]
          /\ th' = [th EXCEPT ![t] = PurgeCall(t)]
     ELSE /\ th' = [th EXCEPT ![t] = Idle]
          /\ ev' = [k |-> "return", t |-> t, op |-> "Purge", res |-> "nil",
                    call |-> PurgeCall(t) @@ [fresh |-> th[t] = Idle]]
          /\ UNCHANGED <<ch, c, q, batch, hist>>
  /\ UNCHANGED <<started, stop, nchan, closed, wg, timers, wk, ft,
                 conf, panicked, nextId, atClose>>

(* ============================== fetcher ================================ *)
\* stopped()
stopped == started = 0

\* messageFetcher: if p.stopped() { break }, and the deferred p.wg.Done()
fetcherCheck(f) ==
  /\ ~panicked
  /\ ft[f].pc = "check"
  /\ IF stopped
     THEN /\ ft' = [ft EXCEPT ![f] = FDone]
          /\ wg' = wg - 1
          /\ ev' = NoEv
     ELSE /\ ft' = [ft EXCEPT ![f].pc = "fetch"]
          /\ wg' = wg
          /\ ev' = NoEv
  /\ UNCHANGED <<started, stop, nchan, closed, ch, c, q, batch, timers, wk, th,
                 conf, panicked, nextId, hist, atClose>>

\* messageFetcher: the pause check, then fetchMessages' ReserveN(BufferSize).
\* ErrNotSupported ends the fetcher; another error makes it sleep.
fetcherFetch(f) ==
  /\ ~panicked
  /\ ft[f].pc = "fetch"
  /\ IF paused(c) > 0
     THEN /\ c' = resetPause(c)
          /\ ft' = [ft EXCEPT ![f].pc = "sleep"]
          /\ ev' = NoEv
          /\ UNCHANGED <<q, wg>>
     ELSE \E r \in ReserveN(BufferSize) :
            /\ q' = QReserve(r)
            /\ c' = c
            /\ IF r.err = "notSupported"
               THEN /\ ft' = [ft EXCEPT ![f] = FDone]
                    /\ wg' = wg - 1
                    /\ ev' = NoEv
               ELSE /\ wg' = wg
                    /\ ev' = NoEv
                    /\ ft' = [ft EXCEPT ![f] =
                               IF r.err = "failed" THEN [pc |-> "sleep", buf |-> <<>>]
                               ELSE IF Len(r.ids) = 0 THEN [pc |-> "check", buf |-> <<>>]
                               ELSE [pc |-> "inc", buf |-> Reserved(r)]]
  /\ UNCHANGED <<started, stop, nchan, closed, ch, batch, timers, wk, th,
                 conf, panicked, nextId, hist, atClose>>

\* time.Sleep(pauseTime) or time.Sleep(consumerBackoff) ends; continue
fetcherWake(f) ==
  /\ ~panicked
  /\ ft[f].pc = "sleep"
  /\ ft' = [ft EXCEPT ![f].pc = "check"]
  /\ ev' = NoEv
  /\ UNCHANGED <<started, stop, nchan, closed, wg, ch, c, q, batch, timers, wk, th,
                 conf, panicked, nextId, hist, atClose>>

\* fetchMessages: queueMessage of the next reserved message increments inFlight
fetcherInc(f) ==
  /\ ~panicked
  /\ ft[f].pc = "inc"
  /\ CountIn(Head(ft[f].buf).id)
  /\ ft' = [ft EXCEPT ![f].pc = "send"]
  /\ ev' = NoEv
  /\ UNCHANGED <<started, stop, nchan, closed, wg, ch, q, batch, timers, wk, th,
                 conf, panicked, nextId, atClose>>

\* ... and sends it on p.ch, blocking while p.ch is full
fetcherSend(f) ==
  /\ ~panicked
  /\ ft[f].pc = "send"
  /\ Len(ch) < BufferSize
  /\ ch' = Append(ch, Head(ft[f].buf))
  /\ ft' = [ft EXCEPT ![f] = IF Len(ft[f].buf) = 1 THEN [pc |-> "check", buf |-> <<>>]
                             ELSE [pc |-> "inc", buf |-> Tail(ft[f].buf)]]
  /\ ev' = NoEv
  /\ UNCHANGED <<started, stop, nchan, closed, wg, c, q, batch, timers, wk, th,
                 conf, panicked, nextId, hist, atClose>>

(* ====================== backing queue, batcher ========================= *)
\* A producer puts a message into a pull queue (Queuer.Add).
Enqueue ==
  /\ ~panicked
  /\ opt.pull
  /\ nextId <= lim.msgs
  /\ nextId' = nextId + 1
  /\ q' = [q EXCEPT ![nextId] = [st |-> "ready", rc |-> 0]]
  /\ ev' = NoEv
  /\ UNCHANGED <<started, stop, nchan, closed, wg, ch, c, batch, timers, wk, ft, th,
                 conf, panicked, hist, atClose>>

\* deleteBatch(msgs): Queuer.DeleteBatch, then deleting -= len(msgs)
deleteBatchKeeps(cs, n) == cs

\* p.deleteBatch(msgs), with n == len(msgs): the counter after it.
deleteBatch(cs, n) == [cs EXCEPT !.deleting = AddUint32(@, -n)]

\* The batcher flushes what it holds through p.deleteBatch; every
\* Batcher.Wait() in progress has then seen its items flushed.
Flush ==
  /\ ~panicked
  /\ BatchLen > 0
  /\ q' = QDeleteBatch(q, {i \in MsgIds : batch[i] > 0})
  /\ c' = deleteBatch(c, BatchLen)
  /\ batch' = [i \in MsgIds |-> 0]
  /\ th' = [t \in Threads |-> IF th[t].pc = "bwait" THEN [th[t] EXCEPT !.pend = FALSE]
                              ELSE th[t]]
  /\ ev' = NoEv
  /\ UNCHANGED <<started, stop, nchan, closed, wg, ch, timers, wk, ft,
                 conf, panicked, nextId, hist, atClose>>

(* ============================= ProcessAll ============================== *)
\* ProcessAll: isIdle := atomic.LoadUint32(&p.inFlight) == 0
ProcessAllIdle(t) ==
  /\ ~panicked
  /\ th[t].pc = "pa_idle"
  /\ th' = [th EXCEPT ![t].pc = "pa_fetch", ![t].isIdle = (c.inFlight = 0)]
  /\ ev' = NoEv
  /\ UNCHANGED <<started, stop, nchan, closed, wg, ch, c, q, batch, timers, wk, ft,
                 conf, panicked, nextId, hist, atClose>>

\* ProcessAll: the rest of a round once fetchMessages returned (n, err): count
\* the idle rounds, leave the loop after two in a row, else go round again
\* (after a sleep when err is ErrNotSupported).
\* The observations (isIdle, n) of the last two rounds, the latest last.
LastRounds(rounds, idle, n) ==
  LET all == Append(rounds, [idle |-> idle, n |-> n])
  IN IF Len(all) > 2 THEN Tail(all) ELSE all

\* ProcessAll leaving its loop after a single idle round.
ProcessAllCountOnce(call, n, err) ==
  LET noWork == IF n = 0 /\ call.isIdle THEN call.noWork + 1 ELSE 0
  IN [call EXCEPT !.noWork = noWork, !.n = n, !.err = err, !.buf = <<>>,
                  !.rounds = LastRounds(@, call.isIdle, n),
                  !.pc = IF noWork >= 1 THEN "pa_stop" ELSE "pa_idle"]

ProcessAllCount(call, n, err) ==
  LET noWork == IF n = 0 /\ call.isIdle THEN call.noWork + 1 ELSE 0
  IN [call EXCEPT !.noWork = noWork, !.n = n, !.err = err, !.buf = <<>>,
                  !.rounds = LastRounds(@, call.isIdle, n),
                  !.pc = IF noWork = 2 THEN "pa_stop" ELSE "pa_idle"]

\* ProcessAll: fetchMessages' ReserveN(BufferSize); an error other than
\* ErrNotSupported is returned at once.
ProcessAllFetch(t) ==
  /\ ~panicked
  /\ th[t].pc = "pa_fetch"
  /\ \E r \in ReserveN(BufferSize) :
       /\ q' = QReserve(r)
       /\ IF r.err = "failed"
          THEN /\ th' = [th EXCEPT ![t] = Idle]
               /\ ev' = Return(t, "failed")
          ELSE /\ ev' = NoEv
               /\ th' = [th EXCEPT ![t] =
                          IF Len(r.ids) = 0 THEN ProcessAllCount(th[t], 0, r.err)
                          ELSE [th[t] EXCEPT !.pc = "pa_inc", !.buf = Reserved(r),
                                             !.n = Len(r.ids), !.err = r.err]]
  /\ UNCHANGED <<started, stop, nchan, closed, wg, ch, c, batch, timers, wk, ft,
                 conf, panicked, nextId, hist, atClose>>

\* fetchMessages: queueMessage of the next reserved message increments inFlight
ProcessAllInc(t) ==
  /\ ~panicked
  /\ th[t].pc = "pa_inc"
  /\ CountIn(Head(th[t].buf).id)
  /\ th' = [th EXCEPT ![t].pc = "pa_send"]
  /\ ev' = NoEv
  /\ UNCHANGED <<started, stop, nchan, closed, wg, ch, q, batch, timers, wk, ft,
                 conf, panicked, nextId, atClose>>

\* ... and sends it on p.ch, blocking while p.ch is full
ProcessAllSend(t) ==
  /\ ~panicked
  /\ th[t].pc = "pa_send"
  /\ Len(ch) < BufferSize
  /\ ch' = Append(ch, Head(th[t].buf))
  /\ th' = [th EXCEPT ![t] = IF Len(th[t].buf) = 1
                             THEN ProcessAllCount(th[t], th[t].n, th[t].err)
                             ELSE [th[t] EXCEPT !.pc = "pa_inc", !.buf = Tail(th[t].buf)]]
  /\ ev' = NoEv
  /\ UNCHANGED <<started, stop, nchan, closed, wg, c, q, batch, timers, wk, ft,
                 conf, panicked, nextId, hist, atClose>>

\* ProcessAll: return p.stopWorkersTimeout(stopTimeout), its compare-and-swap
ProcessAllStop(t) ==
  /\ ~panicked
  /\ th[t].pc = "pa_stop"
  /\ IF casStarted(1)
     THEN /\ started' = 0
          /\ th' = [th EXCEPT ![t] = [StopCall0(t) EXCEPT !.op = "ProcessAll"]]
          /\ ev' = NoEv
     ELSE /\ started' = started
          /\ th' = [th EXCEPT ![t] = Idle]
          /\ ev' = [k |-> "return", t |-> t, op |-> "ProcessAll", res |-> "nil",
                    call |-> [op |-> "ProcessAll", pc |-> "cas", won |-> FALSE]]
  /\ UNCHANGED <<stop, nchan, closed, wg, ch, c, q, batch, timers, wk, ft, conf,
                 panicked, nextId, hist, atClose>>

(* =========================== specification ============================= *)
Opts == [pull : BOOLEAN, fallback : BOOLEAN]

Workers1(w) ==
  \/ workerLoop(w)
  \/ dequeueMessageRecv(w)
  \/ workerProcess(w)

Fetcher1(f) ==
  \/ fetcherCheck(f)
  \/ fetcherFetch(f)
  \/ fetcherWake(f)
  \/ fetcherInc(f)
  \/ fetcherSend(f)

Start1(t) ==
  \/ startWorkersCAS(t, "Start")
  \/ startWorkersMake(t)
  \/ startWorkersSpawn(t)
  \/ StartFetcher(t)

Stop1(t) ==
  \/ stopWorkersCAS(t)
  \/ stopWorkersClose(t)
  \/ stopWorkersWaiter(t)
  \/ stopWorkersTimeout(t)
  \/ stopWorkersStopped(t)
  \/ stopWorkersReturn(t)

Producers(t) ==
  \/ AddCall(t, "Add")
  \/ AddCall(t, "AddDelay")
  \/ AddSend(t)
  \/ AddDelayCall(t)

Consumers(t) ==
  \/ ProcessCall(t)
  \/ ProcessReturn(t)
  \/ reserveOne(t)
  \/ ProcessOneProcess(t)
  \/ ProcessOneReturn(t)
  \/ Purge(t)

ProcessAll1(t) ==
  \/ startWorkersCAS(t, "ProcessAll")
  \/ ProcessAllIdle(t)
  \/ ProcessAllFetch(t)
  \/ ProcessAllInc(t)
  \/ ProcessAllSend(t)
  \/ ProcessAllStop(t)

(* One client drives a processor it starts and never stops: every way a    *)
(* message can reach Process.                                              *)
Init ==
  InitWith(Opts, {[starts |-> 1, buf |-> MaxBuffer - 1, msgs |-> MaxMsgs - 1, inputs |-> MsgInputs,
                   outs |-> HandlerOutcomes],
                  [starts |-> 1, buf |-> MaxBuffer - 1, msgs |-> MaxMsgs, inputs |-> {PlainMsg},
                   outs |-> {NoErr, PlainErr}]})

Next ==
  \/ \E t \in {1} : Start1(t) \/ Producers(t) \/ Consumers(t)
  \/ \E w \in Workers : Workers1(w)
  \/ \E f \in Fetchers : Fetcher1(f)
  \/ \E m \in timers : TimerFire(m)
  \/ Flush
  \/ Enqueue

Spec == Init /\ [][Next]_vars

\* Start and Stop called concurrently by two clients, over several cycles,
\* on a pull queue whose messages the fetcher hands to the workers.
PlainOnly == [buf |-> MaxBuffer - 1, inputs |-> {PlainMsg}, outs |-> {NoErr}]

InitLife ==
  InitWith({o \in Opts : o.pull /\ ~o.fallback},
           {[starts |-> MaxStarts, msgs |-> MaxMsgs - 1] @@ PlainOnly})

NextLife ==
  \/ \E t \in Threads : Start1(t) \/ Stop1(t)
  \/ \E w \in Workers : Workers1(w) \/ workerExit(w)
  \/ \E f \in Fetchers : Fetcher1(f)
  \/ Flush
  \/ Enqueue

SpecLife == InitLife /\ [][NextLife]_vars

\* One client over a push-only queue: a Start/Stop cycle with messages added,
\* taken by ProcessOne and purged.
InitDrain ==
  InitWith({o \in Opts : ~o.pull},
           {[starts |-> 1, buf |-> MaxBuffer - 1, msgs |-> MaxMsgs, inputs |-> MsgInputs, outs |-> {NoErr, PlainErr}],
            [starts |-> 1, msgs |-> MaxMsgs] @@ PlainOnly})

NextDrain ==
  \/ \E t \in {1} : \/ Start1(t) \/ Stop1(t) \/ AddCall(t, "Add") \/ AddSend(t)
                     \/ reserveOne(t) \/ ProcessOneProcess(t) \/ ProcessOneReturn(t)
                     \/ Purge(t)
  \/ \E w \in Workers : Workers1(w) \/ workerExit(w)
  \/ \E f \in Fetchers : fetcherCheck(f) \/ fetcherFetch(f)
  \/ Flush

SpecDrain == InitDrain /\ [][NextDrain]_vars

\* Process called directly on messages of every delay and reserved count,
\* with every kind of handler outcome.
ProcessInputs == [delay : {0, 1, MsgDelay}, rc : {1, RetryLimit, RetryLimit + 1}]
ProcessOutcomes == { NoErr, PlainErr, DelayErr(1), DelayErr(Minute), DelayErr(Minute + 1),
                     DelayErr(2 * Minute), DelayErr(2 * Minute + 1) }

InitProcess ==
  InitWith(Opts, {[starts |-> 0, buf |-> MaxBuffer - 1, msgs |-> MaxMsgs, inputs |-> ProcessInputs,
                   outs |-> ProcessOutcomes]})

NextProcess ==
  \/ \E t \in {1} : ProcessCall(t) \/ ProcessReturn(t)
  \/ Flush

SpecProcess == InitProcess /\ [][NextProcess]_vars

\* One client adds messages and runs ProcessAll over a pull or a push-only
\* queue whose producers enqueue meanwhile.
InitAll ==
  InitWith({o \in Opts : ~o.fallback},
           {[starts |-> 1, buf |-> MaxBuffer - 1, msgs |-> MaxMsgs, inputs |-> {PlainMsg}, outs |-> {NoErr, PlainErr}]})

NextAll ==
  \/ \E t \in {1} : \/ ProcessAll1(t) \/ AddCall(t, "Add") \/ AddSend(t)
                     \/ startWorkersMake(t) \/ startWorkersSpawn(t)
                     \/ stopWorkersClose(t) \/ stopWorkersWaiter(t) \/ stopWorkersTimeout(t)
                     \/ stopWorkersStopped(t) \/ stopWorkersReturn(t)
  \/ \E w \in Workers : Workers1(w) \/ workerExit(w)
  \/ Flush
  \/ Enqueue

SpecAll == InitAll /\ [][NextAll]_vars

\* One client alone, no worker and no fetcher: it adds messages, takes them
\* with ProcessOne and purges them; producers enqueue on a pull queue.
InitOne ==
  InitWith({o \in Opts : ~o.fallback},
           {[starts |-> 0, buf |-> MaxBuffer, msgs |-> MaxMsgs, inputs |-> MsgInputs, outs |-> {NoErr, PlainErr}]})

NextOne ==
  \/ \E t \in {1} : \/ AddCall(t, "Add") \/ AddSend(t)
                     \/ reserveOne(t) \/ ProcessOneProcess(t) \/ ProcessOneReturn(t)
                     \/ Purge(t)
  \/ Flush
  \/ Enqueue

SpecOne == InitOne /\ [][NextOne]_vars

\* A processor that is started and never stopped, its handler succeeding,
\* with messages handed to AddDelay with and without a delay.  Tasks that
\* can run do run; a send blocked on p.ch is served when room is made (the
\* channel's senders queue up in order).
InitDelay ==
  InitWith({o \in Opts : ~o.fallback},
           {[starts |-> 1, msgs |-> MaxMsgs] @@ PlainOnly})

NextDelay ==
  \/ \E t \in {1} : Start1(t) \/ AddCall(t, "AddDelay") \/ AddSend(t) \/ AddDelayCall(t)
  \/ \E w \in Workers : Workers1(w)
  \/ \E f \in Fetchers : Fetcher1(f)
  \/ \E m \in timers : TimerFire(m)
  \/ Flush
  \/ Enqueue

FairDelay ==
  /\ WF_vars(startWorkersMake(1) \/ startWorkersSpawn(1) \/ StartFetcher(1))
  /\ SF_vars(AddSend(1))
  /\ \A w \in Workers : WF_vars(Workers1(w))
  /\ \A f \in Fetchers : SF_vars(Fetcher1(f))
  /\ \A i \in MsgIds : SF_vars(TimerFire(Msg(i, 0, 1)))
  /\ WF_vars(Flush)

SpecDelay == InitDelay /\ [][NextDelay]_vars /\ FairDelay

\* exponentialBackoff called on the durations and retry counts a caller may
\* hand it.
Durations ==
  { Nanosecond64, Second64, MinBackoff64, Mul64(Second64, 3), Hour64, maxBackoff64,
    Mul64(Hour64, 13), MaxInt64 }

exponentialBackoffCall ==
  /\ ~panicked
  /\ \E dur \in Durations, n \in 1..MaxRetry :
       ev' = [k |-> "backoff", dur |-> dur, retry |-> n,
              res |-> exponentialBackoff64(dur, n),
              next |-> exponentialBackoff64(dur, n + 1)]
  /\ UNCHANGED <<started, stop, nchan, closed, wg, ch, c, q, batch, timers, wk, ft, th,
                 conf, panicked, nextId, hist, atClose>>

InitBackoff ==
  InitWith({o \in Opts : ~o.pull /\ ~o.fallback},
           {[starts |-> 0, msgs |-> 0] @@ PlainOnly})

NextBackoff == exponentialBackoffCall

SpecBackoff == InitBackoff /\ [][NextBackoff]_vars

\* One Start/Stop cycle on a pull queue while another client calls Add.
\* Every task that can take a step does; a send blocked on p.ch goes through
\* when room is made; handler and ReserveN calls return.
InitStop ==
  InitWith({o \in Opts : o.pull /\ ~o.fallback},
           {[starts |-> 1, msgs |-> MaxMsgs] @@ PlainOnly})

NextStop ==
  \/ \E t \in {1} : Start1(t) \/ Stop1(t)
  \/ \E t \in {2} : AddCall(t, "Add") \/ AddSend(t)
  \/ \E w \in Workers : Workers1(w) \/ workerExit(w)
  \/ \E f \in Fetchers : Fetcher1(f)
  \/ Flush
  \/ Enqueue

FairStop ==
  /\ WF_vars(startWorkersMake(1) \/ startWorkersSpawn(1) \/ StartFetcher(1))
  /\ WF_vars(stopWorkersClose(1) \/ stopWorkersWaiter(1) \/ stopWorkersStopped(1)
              \/ stopWorkersReturn(1))
  /\ SF_vars(AddSend(2))
  /\ \A w \in Workers : WF_vars(Workers1(w) \/ workerExit(w))
  /\ \A f \in Fetchers : SF_vars(Fetcher1(f))
  /\ WF_vars(Flush)

SpecStop == InitStop /\ [][NextStop]_vars /\ FairStop

(* ============================== properties ============================= *)
RECURSIVE SumIds(_, _)
SumIds(f, S) == IF S = {} THEN 0
                ELSE LET i == CHOOSE x \in S : TRUE IN f[i] + SumIds(f, S \ {i})

\* C1: every call of Process (by a worker, by ProcessOne or by a client)
\* makes exactly one of release and delete, whatever the message's delay and
\* reserved count and the handler's outcome, and so takes one off inFlight.
C1_ExactlyOneTerminal ==
  ev.k = "process" =>
    /\ ev.nrel + ev.ndel = 1
    /\ ev.after.inFlight = ev.before.inFlight - 1

C1_Witness ==
  /\ ev.k = "process" /\ ev.who = "worker"
  /\ ev.out.err /\ ev.msg.rc >= RetryLimit /\ ev.ndel = 1

\* C2: a failing message is released for retry while its reserved count is
\* below RetryLimit and deleted as failed (fails + 1, the fallback handler
\* once if configured) when it is not; a message whose reserved count starts
\* at 1 and grows by one per reservation is so retried at most, and when its
\* handler never succeeds exactly, RetryLimit - 1 times.
C2_RetryBound ==
  /\ \A i \in MsgIds : hist[i].relFail <= RetryLimit - 1
  /\ (ev.k = "process" /\ ev.hnd = 1 /\ ev.out.err) =>
        IF ev.msg.rc >= RetryLimit
        THEN /\ ev.ndel = 1 /\ ev.nrel = 0
             /\ ev.after.fails = ev.before.fails + 1
             /\ ev.after.retries = ev.before.retries
             /\ ev.nfb = (IF opt.fallback THEN 1 ELSE 0)
        ELSE /\ ev.nrel = 1 /\ ev.ndel = 0
             /\ ev.after.retries = ev.before.retries + 1
             /\ ev.after.fails = ev.before.fails
             /\ ev.nfb = 0
  /\ (\A in \in lim.inputs : in.rc = 1 /\ in.delay = 0) =>
        \A i \in MsgIds :
          hist[i].delFail > 0 =>
            /\ hist[i].delFail = 1
            /\ hist[i].relFail = RetryLimit - 1
            /\ hist[i].fb = (IF opt.fallback THEN 1 ELSE 0)
  /\ c.retries = SumIds([i \in MsgIds |-> hist[i].relFail], MsgIds)
  /\ c.fails = SumIds([i \in MsgIds |-> hist[i].delFail], MsgIds)

C2_Witness ==
  /\ opt.fallback /\ RetryLimit >= 2
  /\ \A in \in lim.inputs : in.rc = 1 /\ in.delay = 0
  /\ \E i \in MsgIds : /\ hist[i].delFail = 1 /\ hist[i].fb = 1
                        /\ hist[i].relFail = RetryLimit - 1
  /\ c.fails >= 1 /\ c.retries >= RetryLimit - 1

\* C4: inFlight is the number of messages counted in (by queueMessage, by
\* AddDelay, by reserveOne) less the number released or deleted, and never
\* wraps below zero.
C4_InFlightCounts ==
  /\ c.inFlight >= 0
  /\ c.inFlight = SumIds([i \in MsgIds |-> hist[i].cnt - hist[i].rel - hist[i].del], MsgIds)

\* A Stop/StopTimeout call has just returned res; won tells whether it was
\* the call that switched started from 1 to 0.
StopReturned(res, won) ==
  /\ ev.k = "return" /\ ev.op = "Stop"
  /\ ev.res = res /\ ev.call.won = won

\* The last running worker has just returned from its loop.
LastWorkerExit == ev.k = "workerExit" /\ LiveWorkers = {}

\* C3 as stated: every message in p.ch when Stop closes the stop channel is
\* dequeued by a worker and passed to Process before the last worker exits.
C3_DequeuedByWorker ==
  LastWorkerExit =>
    \A i \in atClose[ev.chan] : hist[i].by = "worker" /\ hist[i].rel + hist[i].del >= 1

\* C3 amended: a worker returns only on a closed stop channel and an empty
\* p.ch, so every message in p.ch at the close has left p.ch before the last
\* worker exits: taken by a worker, which passed it to Process, or by a
\* concurrent ProcessOne, or by Purge, which deleted it without the handler.
C3_DrainedBeforeExit ==
  /\ ev.k = "workerExit" => ev.chan \in closed /\ ch = <<>>
  /\ LastWorkerExit =>
       \A i \in atClose[ev.chan] :
         /\ i \notin ChIds
         /\ hist[i].by \in {"worker", "one", "purge"}
         /\ hist[i].by = "worker" => hist[i].rel + hist[i].del = 1
         /\ hist[i].by = "purge" => hist[i].hnd = 0 /\ hist[i].del = 1

C3_Witness ==
  /\ LastWorkerExit
  /\ \E i \in atClose[ev.chan] : hist[i].by = "worker" /\ hist[i].hnd = 1

\* The messages added so far, the release calls made, the messages purged.
Added == nextId - 1
Released == SumIds([i \in MsgIds |-> hist[i].rel], MsgIds)
Purged == Cardinality({i \in MsgIds : hist[i].by = "purge"})

\* C5: over a push-only queue, once N messages were added by Add calls that
\* returned and Stop then returns nil, inFlight and deleting are 0 and
\* N = processed + fails + releases + purged; with a handler that always
\* succeeds on undelayed messages none of which was purged, processed = N.
C5_Conservation ==
  StopReturned("nil", TRUE) =>
    /\ c.inFlight = 0 /\ c.deleting = 0
    /\ Added = c.processed + c.fails + Released + Purged
    /\ (lim.outs = {NoErr} /\ lim.inputs = {PlainMsg} /\ Purged = 0) =>
          c.processed = Added /\ c.retries = 0 /\ c.fails = 0

C5_Witness ==
  /\ StopReturned("nil", TRUE)
  /\ Added = MaxMsgs /\ c.processed >= 1 /\ Released >= 1

\* C6: when the Stop that switched started from 1 to 0 returns nil, the
\* wait-group has reached zero with every worker and the fetcher of the
\* cycle returned, and Batcher.Wait was called after that and has returned;
\* Batcher.Wait is never called before the wait-group reached zero.
C6_DrainOnCleanStop ==
  /\ \A t \in Threads :
       (th[t].pc = "bwait" /\ th[t].op = "Stop") => th[t].zero /\ th[t].liveAtZero = 0
  /\ StopReturned("nil", TRUE) =>
       /\ ev.call.zero /\ ev.call.liveAtZero = 0
       /\ ev.call.pc = "bwait" /\ ~ev.call.pend
       /\ wg = 0 /\ LiveTasks = {}

C6_Witness ==
  /\ StopReturned("nil", TRUE)
  /\ ev.call.live # {} /\ c.processed >= 1

\* C7 as stated: whenever any Stop/StopTimeout call returns nil, no worker
\* and no fetcher of the processor is running.
C7_NoTaskAfterAnyStop ==
  (ev.k = "return" /\ ev.op = "Stop" /\ ev.res = "nil") => LiveTasks = {}

\* C7 amended: when the Stop/StopTimeout call that switched started from 1
\* to 0 returns nil, every worker and fetcher that was running when it
\* closed the stop channel has returned.
C7_NoTaskOfStoppedCycle ==
  StopReturned("nil", TRUE) => ev.call.live \cap LiveTasks = {}

C7_Witness ==
  /\ StopReturned("nil", TRUE)
  /\ Cardinality(ev.call.live) >= 2
  /\ \E u \in Threads : th[u].op = "Stop"

\* A step that changes nothing of the processor (only the observation).
NoEffect ==
  UNCHANGED <<started, stop, nchan, closed, wg, ch, c, q, batch, timers, wk, ft, th,
              conf, panicked, nextId, hist, atClose>>

\* Client t enters a method in this step, arriving at pc.
Entered(t, pc) == th[t] = Idle /\ th'[t].pc = pc

\* What every step satisfies under C8.
C8_Step ==
  /\ (ev'.k = "return" /\ ev'.op = "Start" /\ ~ev'.call.won) =>
        started = 1 /\ ev'.res = "nil" /\ NoEffect
  /\ (ev'.k = "return" /\ ev'.op = "Stop" /\ ~ev'.call.won) =>
        started = 0 /\ ev'.res = "nil" /\ NoEffect
  /\ \A t \in Threads :
        /\ Entered(t, "make") => started = 0 /\ started' = 1
        /\ Entered(t, "close") => started = 1 /\ started' = 0
  /\ started' # started =>
        \E t \in Threads : Entered(t, IF started = 0 THEN "make" ELSE "close")

\* C8: a Start that finds started = 1 and a Stop that finds started = 0
\* return nil and change nothing; started moves only from 0 to 1, as a
\* Start enters startWorkers, and from 1 to 0, as a Stop enters
\* stopWorkersTimeout.
C8_Idempotent == [][C8_Step]_vars

C8_Witness ==
  /\ ev.k = "return" /\ ev.op = "Start" /\ ~ev.call.won
  /\ LiveWorkers # {}

\* C9: under concurrent Start and Stop calls no call panics: close(p.stop)
\* never finds p.stop nil or already closed.
C9_NoPanic == ~panicked

\* What every step satisfies under C10.
C10_Step ==
  /\ \A t \in Threads :
        (th[t].pc = "wait" /\ ~th[t].zero /\ th'[t].pc # "wait") =>
          ev'.k = "return" /\ ev'.t = t /\ ev'.res = "timeout"
  /\ (ev'.k = "return" /\ ev'.res = "timeout") =>
        /\ ev'.call.pc = "wait" /\ ev'.call.won
        /\ started' = 0
        /\ ev'.call.chan \in closed'
        /\ UNCHANGED <<wk, ft, wg, batch, c, ch>>

\* C10: a Stop whose waiter has not seen the wait-group at zero leaves its
\* select only by the timeout; it then returns the timeout error without
\* calling Batcher.Wait, with started 0, its stop channel closed, and the
\* running workers and fetcher left as they are.
C10_StopTimeout == [][C10_Step]_vars

C10_Witness ==
  /\ StopReturned("timeout", TRUE)
  /\ \E w \in Workers : wk[w].pc = "handle"
  /\ started = 0 /\ BatchLen > 0

\* A Process call has just returned, having run the handler (run = 1) or not.
Processed(run) == ev.k = "process" /\ ev.hnd = run

\* C11: Process on a message with delay > 0 invokes neither handler, calls
\* Queuer.Release once with the message's delay, decrements inFlight once,
\* leaves every other counter as it was, and returns nil.
C11_DelayedMessage ==
  (Processed(0) \/ (ev.k = "process" /\ ev.msg.delay > 0)) =>
    /\ ev.msg.delay > 0 /\ ev.hnd = 0 /\ ev.nfb = 0
    /\ ev.nrel = 1 /\ ev.ndel = 0
    /\ ev.relDelay = ev.msg.delay
    /\ ev.after = [ev.before EXCEPT !.inFlight = AddUint32(@, -1)]
    /\ ev.ret = NoErr

C11_Witness ==
  /\ Processed(0) /\ ev.msg.delay = MsgDelay /\ ev.msg.rc > RetryLimit
  /\ ev.relDelay = MsgDelay /\ ev.before.processed > 0

\* The handler has just failed with an error that exposes a delay.
FailedWithDelay == Processed(1) /\ ev.out.err /\ ev.out.delayer

\* The pause controller after a release with delay d: fed iff d > 1 minute.
PauseFed(d) ==
  IF d > Minute
  THEN /\ ev.after.delaySec = d \div Second
       /\ ev.after.delayCount = ev.before.delayCount + 1
  ELSE /\ ev.after.delaySec = ev.before.delaySec
       /\ ev.after.delayCount = ev.before.delayCount

\* C12 as stated: a handler failure exposing a delay d releases the message
\* with delay d whatever its reserved count, and feeds the pause controller
\* iff d > 1 minute.
C12_ReleasedForEveryCount ==
  FailedWithDelay =>
    /\ ev.nrel = 1 /\ ev.relDelay = ev.out.delay
    /\ PauseFed(ev.out.delay)

\* C12 amended: that holds while the reserved count is below RetryLimit; from
\* RetryLimit on the message is deleted as failed, nothing is released and
\* the pause controller is left alone.
C12_ReleasedBelowLimit ==
  FailedWithDelay =>
    IF ev.msg.rc < RetryLimit
    THEN /\ ev.nrel = 1 /\ ev.ndel = 0
         /\ ev.relDelay = ev.out.delay
         /\ PauseFed(ev.out.delay)
    ELSE /\ ev.nrel = 0 /\ ev.ndel = 1
         /\ ev.relDelay = -1
         /\ ev.after.fails = ev.before.fails + 1
         /\ ev.after.delaySec = ev.before.delaySec
         /\ ev.after.delayCount = ev.before.delayCount

C12_Witness ==
  /\ FailedWithDelay /\ ev.msg.rc < RetryLimit
  /\ ev.out.delay = 2 * Minute + 1 /\ ev.relDelay = ev.out.delay
  /\ ev.after.delaySec = 120 /\ ev.after.delayCount = 1

\* C17: every handler failure, whether the message is then released or
\* deleted, adds one to errCount.
C17_ErrCountCounts ==
  (Processed(1) /\ ev.out.err) => ev.after.errCount = ev.before.errCount + 1

\* ProcessAll is about to leave its loop; it has entered stopWorkersTimeout
\* and won its compare-and-swap.
LeavingLoop(t) == th[t].op = "ProcessAll" /\ th[t].pc = "pa_stop"
Stopping(t) == th[t].op = "ProcessAll" /\ th[t].pc = "close"
IdleRound == [idle |-> TRUE, n |-> 0]

OneReturned(rs) == ev.k = "return" /\ ev.op = "ProcessOne" /\ ev.res \in rs

\* What every step satisfies under C14.
C14_Step ==
  /\ \A t \in Threads :
        (th[t] = Idle /\ th'[t].op = "ProcessOne") =>
          IF ch # <<>>
          THEN /\ th'[t].msg = Head(ch) /\ th'[t].from = "ch"
               /\ ch' = Tail(ch) /\ c' = c /\ q' = q
          ELSE /\ th'[t].from = "queue" /\ ch' = ch
               /\ q[th'[t].msg.id].st = "ready" /\ q'[th'[t].msg.id].st = "reserved"
               /\ c' = [c EXCEPT !.inFlight = @ + 1]
  /\ (ev'.k = "return" /\ ev'.op = "ProcessOne" /\ ev'.res \in {"empty", "failed"}) =>
        /\ th[ev'.t] = Idle /\ ch = <<>>
        /\ UNCHANGED <<c, ch, q, batch, hist>>
  /\ (ev'.k = "process" /\ ev'.who = "one") =>
        \E t \in Threads :
          /\ th[t].op = "ProcessOne" /\ th[t].pc = "handle" /\ th[t].msg = ev'.msg
          /\ th'[t].pc = "bwait"
          /\ \A i \in MsgIds \ {ev'.id} : hist'[i] = hist[i]
  /\ (ev'.k = "return" /\ ev'.op = "ProcessOne" /\ ev'.res \in {"nil", "handler"}) =>
        /\ ev'.call.pc = "bwait" /\ ~ev'.call.pend
        /\ BatchLen = 0 /\ c.deleting = 0
        /\ c.inFlight = ev'.call.c0.inFlight - (IF ev'.call.from = "ch" THEN 1 ELSE 0)
        /\ UNCHANGED <<c, ch, q, batch, hist>>

\* C14: ProcessOne takes the head of p.ch if there is one, else reserves one
\* message with ReserveN(1); with no message it returns its error leaving
\* p.ch and every counter alone and calling no handler; else it calls
\* Process on that one message, waits for the batcher, and leaves inFlight
\* one lower (message from p.ch) or as it was (message from ReserveN).
C14_ProcessOne == [][C14_Step]_vars

C14_Witness ==
  /\ OneReturned({"handler"}) /\ ev.call.from = "queue"
  /\ c.inFlight = ev.call.c0.inFlight /\ c.retries > ev.call.c0.retries

\* C14 as stated: whenever ProcessOne returns without a message, the error
\* it returns is "queue is empty".
C14_OnlyQueueIsEmpty ==
  (ev.k = "return" /\ ev.op = "ProcessOne" /\ ev.call.pc = "reserve") => ev.res = "empty"

\* Purge has just returned.
Purged0 == ev.k = "return" /\ ev.op = "Purge"

\* C15: with no other producer or consumer, Purge deletes every message it
\* finds in p.ch without the handler or the fallback handler: each goes to
\* the batcher once, taking one off inFlight and adding one to deleting;
\* processed, retries and fails stay; it returns with p.ch empty, at once
\* when p.ch was empty.
C15_Purge ==
  /\ ev.k = "purge" =>
        /\ ev.after = [resetPause(ev.before) EXCEPT !.inFlight = @ - 1, !.deleting = @ + 1]
        /\ hist[ev.id].by = "purge"
  /\ Purged0 =>
        /\ ch = <<>>
        /\ ev.call.fresh <=> ev.call.ch0 = {}
        /\ \A i \in ev.call.ch0 :
              /\ hist[i].by = "purge" /\ hist[i].del = 1
              /\ hist[i].hnd = 0 /\ hist[i].fb = 0
              /\ batch[i] = 1 \/ q[i].st = "deleted"
        /\ c.inFlight = ev.call.c0.inFlight - Cardinality(ev.call.ch0)
        /\ c.processed = ev.call.c0.processed
        /\ c.retries = ev.call.c0.retries
        /\ c.fails = ev.call.c0.fails
        /\ c.deleting = BatchLen

C15_Witness ==
  /\ Purged0 /\ Cardinality(ev.call.ch0) = MaxBuffer
  /\ c.deleting = MaxBuffer

\* Message i is held by a pending timer of AddDelay.
InTimer(i) == \E m \in timers : m.id = i

C16_Step ==
  /\ \A t \in Threads :
        (th[t] = Idle /\ th'[t].op = "AddDelay") =>
          /\ th'[t].pc = "send" /\ timers' = timers /\ ch' = ch
          /\ c' = [c EXCEPT !.inFlight = @ + 1]
  /\ \A t \in Threads :
        (th[t].op = "AddDelay" /\ th'[t] = Idle) =>
          /\ ch' = Append(ch, th[t].msg) /\ c' = c /\ timers' = timers
  /\ (ev'.k = "return" /\ ev'.op = "AddDelay" /\ ev'.call.pc = "timer") =>
        /\ th[ev'.t] = Idle /\ th' = th
        /\ ~InTimer(ev'.call.msg.id)
        /\ timers' = timers \cup {ev'.call.msg}
        /\ ch' = ch
        /\ c' = [c EXCEPT !.inFlight = @ + 1]
  /\ \A i \in MsgIds :
        (InTimer(i) /\ ~InTimer(i)') =>
          /\ \E m \in timers : m.id = i /\ ch' = Append(ch, m)
          /\ c' = c
  /\ \A i \in MsgIds : (hist[i].hnd > 0 /\ ~InTimer(i)) => ~InTimer(i)'

C16_State ==
  /\ \A i \in MsgIds :
        InTimer(i) => i \notin ChIds /\ hist[i].cnt = 1 /\ hist[i].hnd = 0
  /\ \A j, k \in 1..Len(ch) : ch[j].id = ch[k].id => j = k
  /\ \A i \in ChIds : hist[i].hnd = 0 /\ hist[i].del = 0

\* C16: AddDelay(msg, 0) does what Add(msg) does; AddDelay(msg, d) with d > 0
\* adds one to inFlight at the call and never again, returns in the same
\* step, and the message enters p.ch once, by the firing of its timer; on a
\* started processor with a succeeding handler the message is then handled
\* and deleted, and inFlight falls back to what it was.
C16_AddDelay ==
  /\ [][C16_Step]_vars
  /\ []C16_State
  /\ \A i \in MsgIds :
        (started = 1 /\ InTimer(i)) ~> (hist[i].hnd = 1 /\ hist[i].del = 1)
  /\ (started = 1 /\ timers # {}) ~> (timers = {} /\ c.inFlight = 0)

C16_Witness ==
  /\ ev.k = "process" /\ ev.who = "worker" /\ ev.after.inFlight = 0
  /\ \A i \in MsgIds : hist[i].del = 1
  /\ timers = {} /\ started = 1

\* d \div 2^n for a d >= 0.
Shr64(d, n) ==
  LET f == [i \in 1..5 |-> IF i + n \div 16 <= 4 THEN d[i + n \div 16] ELSE 0]
      s == Pow2(n % 16)
  IN [i \in 1..4 |-> f[i] \div s + (f[i + 1] % s) * (65536 \div s)]

\* min(b * 2^(k-1), 12h) on the integers, for b > 0: b * 2^n is above 12h
\* exactly when b is above 12h \div 2^n, and else the shift loses no bit.
MinDoubled(b, k) ==
  IF k - 1 >= 64 \/ Gt64(b, Shr64(maxBackoff64, k - 1)) THEN maxBackoff64
  ELSE Shl64(b, k - 1)

\* C18: for every base b > 0 and retry count k >= 1, on int64 durations,
\* exponentialBackoff(b, k) <= exponentialBackoff(b, k + 1) <= 12h,
\* exponentialBackoff(b, k) = min(b * 2^(k-1), 12h), and the result is
\* greater than zero.
C18_Backoff ==
  ev.k = "backoff" =>
    /\ ~Gt64(ev.res, ev.next)
    /\ ~Gt64(ev.next, maxBackoff64)
    /\ ev.res = MinDoubled(ev.dur, ev.retry)
    /\ Gt64(ev.res, Zero64)

\* The Start cycle that spawned worker w; cycle k made stop channel k and
\* spawned fetcher k.
CycleOf(w) == (w - 1) \div WorkerNumber + 1

\* Workers waiting in dequeueMessage on a stop channel that is open: they
\* take whatever comes into p.ch.
Consuming ==
  {w \in LiveWorkers : wk[w].pc = "select" /\ wk[w].ref # Nil /\ wk[w].ref \notin closed}

\* Fetchers of a cycle whose stop channel was closed, about to find
\* stopped() false and fetch again.
Resuming ==
  {f \in LiveFetchers : f \in closed /\ ft[f].pc = "check" /\ started = 1}

\* C19: under any sequence of Start and Stop/StopTimeout (timed out or not)
\* at most WorkerNumber workers go on consuming from p.ch and at most one
\* fetcher goes on fetching, and no worker or fetcher of a stopped cycle
\* resumes after a later Start.
C19_OneGeneration ==
  /\ Cardinality(Consuming) <= WorkerNumber
  /\ \A w \in Consuming : CycleOf(w) \notin closed
  /\ Cardinality({f \in LiveFetchers : f \notin closed}) <= 1
  /\ Resuming = {}

\* C20: once Stop has closed the stop channel, every worker and the fetcher
\* return (the wait group reaches zero), also with Add callers pushing into
\* p.ch meanwhile; and a failing ReserveN does not end the fetcher while the
\* processor is started.
C20_Shutdown ==
  /\ (closed # {}) ~> (wg = 0 /\ LiveTasks = {})
  /\ [][\A f \in Fetchers :
          (ft[f].pc = "fetch" /\ ft'[f] = FDone) => opt.pull = FALSE]_vars
====
